---- MODULE Spec2Model ----
(***************************************************************************)
(* A model of nadjet/keras-bert: the featurizer of keras-bert-multi.py     *)
(* (convert_single_example), the label expander of utils/df_utils.py       *)
(* (one_to_many, get_values), the BertLayer constructor and the driver     *)
(* (main).  Each part has its own specification over the shared variables: *)
(*   SpecFeat   convert_single_example on every bounded example            *)
(*   SpecDf     one_to_many on every bounded dataframe                     *)
(*   SpecLayer  BertLayer.__init__ / build / call                          *)
(*   SpecMain   main, stage by stage                                       *)
(***************************************************************************)
EXTENDS Integers, Sequences, FiniteSets, TLC

VARIABLES
    example,          \* convert_single_example: the `example` argument
    max_seq_length,   \* convert_single_example: the `max_seq_length` argument
    features,         \* convert_single_example: what the call produced
    df,               \* one_to_many: the dataframe argument (mutated in place)
    df0,              \* one_to_many: the dataframe as it was before the call
    column_name,      \* one_to_many: the label column's name
    dfpc,             \* one_to_many: "call" before, "returned" after
    layer,            \* BertLayer: the object's fields and life-cycle position
    run               \* main: the driver's local variables and position

featVars  == <<example, max_seq_length, features>>
dfVars    == <<df, df0, column_name, dfpc>>
layerVars == <<layer>>
mainVars  == <<run>>
vars      == <<example, max_seq_length, features, df, df0, column_name, dfpc, layer, run>>

(***************************************************************************)
(* Bounds of the model.                                                    *)
(***************************************************************************)
MaxWords == 6        \* words in an example's text
MaxLen == 10         \* largest max_seq_length tried
MaxDfRows == 4       \* rows of a dataframe handed to one_to_many
MaxRows == 3         \* rows of a dataset whose every labelling and shuffle is tried

(***************************************************************************)
(* Program constants.                                                      *)
(***************************************************************************)
NUM_CLASSES == 8

(***************************************************************************)
(* Python helpers.                                                         *)
(***************************************************************************)
Min(a, b) == IF a < b THEN a ELSE b
Max(a, b) == IF a > b THEN a ELSE b

\* [v] * n
Repeat(v, n) == [i \in 1..Max(n, 0) |-> v]

\* s[0:stop], Python slice semantics: a negative stop counts from the end
SlicePrefix(s, stop) ==
    LET k == IF stop < 0 THEN Max(Len(s) + stop, 0) ELSE Min(stop, Len(s))
    IN  SubSeq(s, 1, k)

\* s[start:], start >= 0
SliceFrom(s, start) == SubSeq(s, Min(start, Len(s)) + 1, Len(s))

RECURSIVE Flatten(_)
Flatten(ss) == IF ss = <<>> THEN <<>> ELSE Head(ss) \o Flatten(Tail(ss))

\* all sequences over S of length 0..n
SeqsUpTo(S, n) == UNION {[1..k -> S] : k \in 0..n}

(***************************************************************************)
(* The tokenizer (bert.tokenization.FullTokenizer, an external library):   *)
(* a text is a sequence of whitespace-separated words, a word is cut into  *)
(* one or more word pieces, and a piece is looked up in the vocabulary.    *)
(***************************************************************************)
Words == {"a", "b", "ab"}

WordPieces(w) == IF w = "ab" THEN <<"a", "##b">> ELSE <<w>>

Tokenize(text) == Flatten([i \in 1..Len(text) |-> WordPieces(text[i])])

VocabId(tok) ==
    CASE tok = "[PAD]" -> 0
      [] tok = "[UNK]" -> 100
      [] tok = "[CLS]" -> 101
      [] tok = "[SEP]" -> 102
      [] tok = "a"     -> 200
      [] tok = "b"     -> 201
      [] tok = "##b"   -> 202

ConvertTokensToIds(tokens) == [i \in 1..Len(tokens) |-> VocabId(tokens[i])]

(***************************************************************************)
(* convert_single_example                                                  *)
(***************************************************************************)
PaddingInputExample == [kind |-> "padding", text_a |-> <<>>, label |-> <<>>]

InputExample(text_a, label) == [kind |-> "input", text_a |-> text_a, label |-> label]

\* lines 75-76: keep at most max_seq_length - 2 tokens
TruncateKeepsOneMore(tokens_a, L) ==
    IF Len(tokens_a) > L - 2 THEN SlicePrefix(tokens_a, L - 1) ELSE tokens_a
TruncateKeepsTail(tokens_a, L) ==
    IF Len(tokens_a) > L - 2 /\ L >= 2
    THEN SubSeq(tokens_a, Len(tokens_a) - (L - 2) + 1, Len(tokens_a))
    ELSE IF Len(tokens_a) > L - 2 THEN SlicePrefix(tokens_a, L - 2) ELSE tokens_a
Truncate(tokens_a, L) ==
    IF Len(tokens_a) > L - 2 THEN SlicePrefix(tokens_a, L - 2) ELSE tokens_a

\* lines 78-86: [CLS] + tokens_a + [SEP]
AddMarkersNoStart(tokens_a) == tokens_a \o <<"[SEP]">>
AddMarkers(tokens_a) == <<"[CLS]">> \o tokens_a \o <<"[SEP]">>

\* lines 95-98: while len(s) < max_seq_length: s.append(0)
RECURSIVE ZeroPad(_, _)
ZeroPad(s, L) == IF Len(s) < L THEN ZeroPad(Append(s, 0), L) ELSE s

\* lines 92 and 95-97: 1 for every real token, then 0 for the padding
InputMaskAfterPadding(ids, L) == Repeat(1, Len(ZeroPad(ids, L)))
InputMask(ids, L) == ZeroPad(Repeat(1, Len(ids)), L)

ConvertSingleExample(ex, L) ==
    IF ex.kind = "padding"
    THEN [status      |-> "returned",
          input_ids   |-> Repeat(0, L),
          input_mask  |-> Repeat(0, L),
          segment_ids |-> Repeat(0, L),
          label       |-> Repeat(0, NUM_CLASSES)]
    ELSE
      LET tokens_a    == Truncate(Tokenize(ex.text_a), L)
          tokens      == AddMarkers(tokens_a)
          seg         == Repeat(0, Len(tokens))
          ids         == ConvertTokensToIds(tokens)
          input_ids   == ZeroPad(ids, L)
          input_mask  == InputMask(ids, L)
          segment_ids == ZeroPad(seg, L)
          asserted    == /\ Len(input_ids) = L
                         /\ Len(input_mask) = L
                         /\ Len(segment_ids) = L
      IN  [status      |-> IF asserted THEN "returned" ELSE "AssertionError",
           input_ids   |-> input_ids,
           input_mask  |-> input_mask,
           segment_ids |-> segment_ids,
           label       |-> ex.label]

NoFeatures ==
    [status |-> "pending", input_ids |-> <<>>, input_mask |-> <<>>,
     segment_ids |-> <<>>, label |-> <<>>]

FeatExamples ==
    {PaddingInputExample}
      \cup {InputExample(t, l) : t \in SeqsUpTo(Words, MaxWords), l \in {<<1, 0>>}}

FeatIdle ==
    /\ example = PaddingInputExample
    /\ max_seq_length = 0
    /\ features = [NoFeatures EXCEPT !.status = "idle"]

CallConvertSingleExample ==
    /\ features.status = "pending"
    /\ features' = ConvertSingleExample(example, max_seq_length)
    /\ UNCHANGED <<example, max_seq_length, dfVars, layerVars, mainVars>>

(***************************************************************************)
(* Dataframes (pandas).  A cell holds a Python value, written as a pair of  *)
(* its type and its payload, so that a string never equals an integer.     *)
(* A label is a string; a text is a string written as its sequence of      *)
(* whitespace-separated words.                                             *)
(***************************************************************************)
PyStr(s) == <<"str", s>>
PyInt(n) == <<"int", n>>

\* Python's ==
PyEq(x, y) == x[1] = y[1] /\ x[2] = y[2]

Range(s) == {s[i] : i \in DOMAIN s}

\* the strings of the model in Python's (lexicographic) order
StrOrder == <<"a", "b", "c", "labels", "text">>

SortKey(v) ==
    IF v[1] = "int" THEN v[2] ELSE CHOOSE k \in 1..Len(StrOrder) : StrOrder[k] = v[2]

\* sorted(list(S)) for a set S of values of one type
RECURSIVE Sorted(_)
Sorted(S) ==
    IF S = {} THEN <<>>
    ELSE LET m == CHOOSE x \in S : \A y \in S : SortKey(x) <= SortKey(y)
         IN  <<m>> \o Sorted(S \ {m})

\* df[name].tolist()
ToList(d, name) == [r \in 1..Len(d.data) |-> d.data[r][name]]

\* the sequence f with its elements evaluated (TLC builds
\* [r \in 1..n |-> e] lazily, and a long chain of updates nests too deep)
AsList(f) == SubSeq(f, 1, Len(f))

\* df[name] = v: an existing column is overwritten, a new one is appended
SetColumn(d, name, v) ==
    [d EXCEPT
       !.columns = IF name \in Range(d.columns) THEN @ ELSE Append(@, name),
       !.data    = AsList([r \in 1..Len(d.data) |->
                      IF name \in DOMAIN d.data[r]
                      THEN [d.data[r] EXCEPT ![name] = v]
                      ELSE d.data[r] @@ (name :> v)])]

\* df.loc[i, name] = v: every row whose index label is i
SetLoc(d, i, name, v) ==
    [d EXCEPT
       !.data = AsList([r \in 1..Len(d.data) |->
                   IF d.index[r] = i THEN [d.data[r] EXCEPT ![name] = v]
                   ELSE d.data[r]])]

\* utils/df_utils.py get_values
RECURSIVE Reversed(_)
Reversed(q) == IF q = <<>> THEN <<>> ELSE Append(Reversed(Tail(q)), Head(q))
get_valuesDescending(d, name) == Reversed(Sorted(Range(ToList(d, name))))
get_values(d, name) == Sorted(Range(ToList(d, name)))

\* lines 9-11: for column in columns: df[column] = 0
RECURSIVE AddZeroColumns(_, _)
AddZeroColumns(d, columns) ==
    IF columns = <<>> THEN d
    ELSE AddZeroColumns(SetColumn(d, Head(columns)[2], PyInt(0)), Tail(columns))

\* lines 13-15, for one row of iterrows(): i its index label, row its values
RECURSIVE MarkRow(_, _, _, _, _)
MarkRow(d, i, row, columns, name) ==
    IF columns = <<>> THEN d
    ELSE LET column == Head(columns)
             d1 == IF PyEq(column, row[name]) THEN SetLoc(d, i, column[2], PyInt(1))
                   ELSE d
         IN  MarkRow(d1, i, row, Tail(columns), name)

\* lines 12-15: iterrows() yields the rows as they were when the loop began
RECURSIVE MarkRows(_, _, _, _, _)
MarkRows(d, rows, r, columns, name) ==
    IF r > Len(d.data) THEN d
    ELSE MarkRows(MarkRow(d, rows.index[r], rows.data[r], columns, name),
                  rows, r + 1, columns, name)

\* utils/df_utils.py one_to_many
one_to_many(d, name) ==
    LET columns == Sorted(Range(ToList(d, name)))
        zeroed  == AddZeroColumns(d, columns)
    IN  MarkRows(zeroed, zeroed, 1, columns, name)


(***************************************************************************)
(* The dataframes of the model: columns id, text, labels as main leaves    *)
(* them (line 273), one row per label, under each shape of row index.      *)
(***************************************************************************)
LabelValues == {"a", "b", "c", "labels", "text"}

\* the text of the k-th row of a file: k mod 4 words
TextOf(k) == [j \in 1..(k % 4) |-> IF j % 2 = 1 THEN "ab" ELSE "b"]

BaseColumns == <<"id", "text", "labels">>

MakeFrame(index, labels) ==
    [index   |-> index,
     columns |-> BaseColumns,
     data    |-> AsList([r \in 1..Len(labels) |->
                    [id     |-> PyInt(r),
                     text   |-> PyStr(TextOf(r)),
                     labels |-> PyStr(labels[r])]])]

\* a RangeIndex, a shuffled (here reversed) one, and one with repeated labels
IndexShapes(n) ==
    {[r \in 1..n |-> r - 1], [r \in 1..n |-> n - r], [r \in 1..n |-> (r - 1) \div 2]}

DataFrames ==
    {MakeFrame(ix, ls) : <<ix, ls>> \in
        UNION {IndexShapes(n) \X [1..n -> LabelValues] : n \in 0..MaxDfRows}}

EmptyFrame == MakeFrame(<<>>, <<>>)

DfIdle ==
    /\ df = EmptyFrame
    /\ df0 = EmptyFrame
    /\ column_name = "labels"
    /\ dfpc = "idle"

CallOneToMany ==
    /\ dfpc = "call"
    /\ df' = one_to_many(df, column_name)
    /\ dfpc' = "returned"
    /\ UNCHANGED <<df0, column_name, featVars, layerVars, mainVars>>

(***************************************************************************)
(* BertLayer                                                               *)
(***************************************************************************)
MaxFineTune == 12    \* largest n_fine_tune_layers tried

Poolings == {"first", "mean", "max", "cls"}

NewLayer(n, pooling) ==
    [pc                 |-> "new",
     arg_n              |-> n,
     arg_pooling        |-> pooling,
     n_fine_tune_layers |-> 0,
     trainable          |-> FALSE,
     output_size        |-> 0,
     pooling            |-> "",
     super_init         |-> FALSE,
     bert               |-> FALSE,       \* hub.Module fetched
     trainable_layers   |-> <<>>,
     built              |-> FALSE,
     pooled             |-> "",
     raised             |-> ""]

\* BertLayer.__init__
BertLayerInitUnchecked(l) ==
    [l EXCEPT !.n_fine_tune_layers = l.arg_n, !.trainable = TRUE, !.output_size = 768,
              !.pooling = l.arg_pooling, !.super_init = TRUE, !.pc = "constructed"]
BertLayerInit(l) ==
    LET set == [l EXCEPT !.n_fine_tune_layers = l.arg_n,
                         !.trainable = TRUE,
                         !.output_size = 768,
                         !.pooling = l.arg_pooling]
    IN  IF set.pooling \notin {"first", "mean"}
        THEN [set EXCEPT !.pc = "NameError", !.raised = "__init__"]
        ELSE [set EXCEPT !.super_init = TRUE, !.pc = "constructed"]

\* lines 181-182: f"encoder/layer_{str(11 - i)}" for i in range(n)
EncoderLayers(n) == [i \in 1..Max(n, 0) |-> <<"encoder/layer", 11 - (i - 1)>>]

\* BertLayer.build
BertLayerBuild(l) ==
    LET fetched == [l EXCEPT !.bert = TRUE]
    IN  IF l.pooling = "first"
        THEN [fetched EXCEPT
                !.trainable_layers = <<(<<"pooler/dense", 0>>)>> \o EncoderLayers(l.n_fine_tune_layers),
                !.built = TRUE, !.pc = "built"]
        ELSE IF l.pooling = "mean"
        THEN [fetched EXCEPT
                !.trainable_layers = EncoderLayers(l.n_fine_tune_layers),
                !.built = TRUE, !.pc = "built"]
        ELSE [fetched EXCEPT !.pc = "NameError", !.raised = "build"]

\* BertLayer.call
BertLayerCall(l) ==
    IF l.pooling = "first" THEN [l EXCEPT !.pooled = "pooled_output", !.pc = "called"]
    ELSE IF l.pooling = "mean"
    THEN [l EXCEPT !.pooled = "masked_mean(sequence_output)", !.pc = "called"]
    ELSE [l EXCEPT !.pc = "NameError", !.raised = "call"]

LayerIdle == layer = NewLayer(0, "idle")

Construct ==
    /\ layer.pc = "new"
    /\ layer' = BertLayerInit(layer)
    /\ UNCHANGED <<featVars, dfVars, mainVars>>

Build ==
    /\ layer.pc = "constructed"
    /\ layer' = BertLayerBuild(layer)
    /\ UNCHANGED <<featVars, dfVars, mainVars>>

Call ==
    /\ layer.pc = "built"
    /\ layer' = BertLayerCall(layer)
    /\ UNCHANGED <<featVars, dfVars, mainVars>>


(***************************************************************************)
(* int(len(df) * 0.7), line 275: an IEEE-754 binary64 product, rounded to  *)
(* nearest (ties to even), then truncated.  Numbers are sequences of bits, *)
(* least significant first.                                                *)
(***************************************************************************)
\* the 53-bit significand of the double 0.7 = 0x16666666666666 * 2^-53
Significand07 == Flatten([i \in 1..13 |-> <<0, 1, 1, 0>>]) \o <<1>>

FractionBits == 53

\* bits * n + carry, for a small natural n
RECURSIVE MulBits(_, _, _)
MulBits(bits, n, carry) ==
    IF bits = <<>>
    THEN IF carry = 0 THEN <<>> ELSE <<carry % 2>> \o MulBits(<<>>, n, carry \div 2)
    ELSE LET t == Head(bits) * n + carry
         IN  <<t % 2>> \o MulBits(Tail(bits), n, t \div 2)

RECURSIVE IncBits(_)
IncBits(bits) ==
    IF bits = <<>> THEN <<1>>
    ELSE IF Head(bits) = 0 THEN <<1>> \o Tail(bits)
    ELSE <<0>> \o IncBits(Tail(bits))

RECURSIVE BitsToNat(_)
BitsToNat(bits) == IF bits = <<>> THEN 0 ELSE Head(bits) + 2 * BitsToNat(Tail(bits))

\* the exact product rounded to 53 significant bits, ties to even
RoundToDouble(bits) ==
    IF Len(bits) <= 53 THEN bits
    ELSE LET d      == Len(bits) - 53
             kept   == SubSeq(bits, d + 1, Len(bits))
             guard  == bits[d]
             sticky == \E j \in 1..(d - 1) : bits[j] = 1
             up     == guard = 1 /\ (sticky \/ kept[1] = 1)
         IN  Repeat(0, d) \o (IF up THEN IncBits(kept) ELSE kept)

\* int(n * 0.7)
IntOfTimes07(n) ==
    LET product == RoundToDouble(MulBits(Significand07, n, 0))
    IN  BitsToNat(SliceFrom(product, FractionBits))


(***************************************************************************)
(* main: the driver, one action per stage.  A stage that calls out of the  *)
(* program (the file system, the model hub, the training framework) may    *)
(* raise; an exception is caught nowhere, so it ends the run.              *)
(***************************************************************************)
\* the files read: every labelling of up to MaxRows rows, and two long files
BigRowCounts == {10, 90}

CsvFiles ==
    SeqsUpTo({"a", "b", "labels", "text"}, MaxRows)
      \cup {[r \in 1..n |-> <<"a", "b", "c">>[(r % 3) + 1]] : n \in BigRowCounts}

\* the max_seq_length argument of main
MainSeqLengths == {1, 3}

\* the orders df.sample(n=len(df), random_state=42) may put n rows in: any
\* order of a short file, the rotations by 0..MaxRows of a long one
Orders(n) == {p \in [1..n -> 1..n] : \A i, j \in 1..n : p[i] = p[j] => i = j}

Shuffles(n) ==
    IF n <= MaxRows THEN Orders(n)
    ELSE {[r \in 1..n |-> ((r - 1 + k) % n) + 1] : k \in 0..MaxRows}

\* the rows perm[1], perm[2], ... of d, each with its index label
Reorder(d, perm) ==
    [d EXCEPT !.index = [r \in 1..Len(d.index) |-> d.index[perm[r]]],
              !.data  = [r \in 1..Len(d.data) |-> d.data[perm[r]]]]

\* df[lo:hi], 0-based and half-open
FrameSlice(d, lo, hi) ==
    [d EXCEPT !.index = SubSeq(d.index, lo + 1, hi),
              !.data  = SubSeq(d.data, lo + 1, hi)]

\* lines 281-282 and 289-290: each text cut to its first max_seq_length words
TextColumn(d, text_column, L) ==
    [r \in 1..Len(d.data) |-> SlicePrefix(d.data[r][text_column][2], L)]

\* df[labels]: every name must be a column
HasColumns(d, labels) ==
    \A k \in 1..Len(labels) : labels[k][1] = "str" /\ labels[k][2] \in Range(d.columns)

\* df[labels].values
Values(d, labels) ==
    [r \in 1..Len(d.data) |-> [k \in 1..Len(labels) |-> d.data[r][labels[k][2]][2]]]

\* convert_text_to_examples
convert_text_to_examples(texts, labels) ==
    [r \in 1..Min(Len(texts), Len(labels)) |-> InputExample(texts[r], labels[r])]

\* convert_examples_to_features
convert_examples_to_features(examples, L) ==
    [r \in 1..Len(examples) |-> ConvertSingleExample(examples[r], L)]

Raises(feats) == \E r \in 1..Len(feats) : feats[r].status # "returned"

NewRun(csv, L) ==
    [pc             |-> "load",
     csv            |-> csv,
     max_seq_length |-> L,
     text_column    |-> "text",
     label_column   |-> "labels",
     df             |-> EmptyFrame,
     train_sz       |-> 0,
     train_df       |-> EmptyFrame,
     test_df        |-> EmptyFrame,
     train_text     |-> <<>>,
     test_text      |-> <<>>,
     train_label    |-> <<>>,
     test_label     |-> <<>>,
     tokenizer      |-> FALSE,
     train_features |-> <<>>,
     test_features  |-> <<>>,
     model          |-> "none",
     artifact       |-> FALSE,
     done           |-> <<>>,
     failed         |-> "",
     error          |-> ""]

Completed(r, stage, next) == [r EXCEPT !.pc = next, !.done = Append(@, stage)]

Aborted(r, stage, error) == [r EXCEPT !.pc = "aborted", !.failed = stage, !.error = error]

MainIdle == run = [NewRun(<<>>, 0) EXCEPT !.pc = "idle"]

\* lines 271-273
Load ==
    /\ run.pc = "load"
    /\ run' = Completed(
         [run EXCEPT !.df = MakeFrame([r \in 1..Len(run.csv) |-> r - 1], run.csv)],
         "load", "shuffle")
    /\ UNCHANGED <<featVars, dfVars, layerVars>>

LoadFails ==
    /\ run.pc = "load"
    /\ run' = Aborted(run, "load", "read_csv")
    /\ UNCHANGED <<featVars, dfVars, layerVars>>

\* line 274
Shuffle ==
    /\ run.pc = "shuffle"
    /\ \E perm \in Shuffles(Len(run.df.data)) :
         run' = Completed([run EXCEPT !.df = Reorder(run.df, perm)], "shuffle", "split")
    /\ UNCHANGED <<featVars, dfVars, layerVars>>

\* lines 275-277
SplitAtSeventyPercent(r) ==
    LET n  == Len(r.df.data)
        sz == IntOfTimes07(n)
    IN  [r EXCEPT !.train_sz = sz,
                  !.train_df = FrameSlice(r.df, 0, sz),
                  !.test_df  = FrameSlice(r.df, sz, n)]

Split ==
    /\ run.pc = "split"
    /\ run' = Completed(SplitAtSeventyPercent(run), "split", "expand")
    /\ UNCHANGED <<featVars, dfVars, layerVars>>

\* lines 281-294
ExpandLabels(r) ==
    LET L            == r.max_seq_length
        train_text   == TextColumn(r.train_df, r.text_column, L)
        train_df     == one_to_many(r.train_df, r.label_column)
        train_labels == get_values(train_df, r.label_column)
        test_text    == TextColumn(r.test_df, r.text_column, L)
        test_df      == one_to_many(r.test_df, r.label_column)
        test_labels  == get_values(test_df, r.label_column)
    IN  IF ~HasColumns(train_df, train_labels)
        THEN Aborted([r EXCEPT !.train_text = train_text, !.train_df = train_df],
                     "expand", "KeyError")
        ELSE IF ~HasColumns(test_df, test_labels)
        THEN Aborted([r EXCEPT !.train_text = train_text, !.train_df = train_df,
                               !.train_label = Values(train_df, train_labels),
                               !.test_text = test_text, !.test_df = test_df],
                     "expand", "KeyError")
        ELSE Completed([r EXCEPT !.train_text = train_text, !.train_df = train_df,
                                 !.train_label = Values(train_df, train_labels),
                                 !.test_text = test_text, !.test_df = test_df,
                                 !.test_label = Values(test_df, test_labels)],
                       "expand", "tokenizer")

Expand ==
    /\ run.pc = "expand"
    /\ run' = ExpandLabels(run)
    /\ UNCHANGED <<featVars, dfVars, layerVars>>

\* line 298
FetchTokenizer ==
    /\ run.pc = "tokenizer"
    /\ run' = Completed([run EXCEPT !.tokenizer = TRUE], "tokenizer", "featurize")
    /\ UNCHANGED <<featVars, dfVars, layerVars>>

FetchTokenizerFails ==
    /\ run.pc = "tokenizer"
    /\ run' = Aborted(run, "tokenizer", "hub.Module")
    /\ UNCHANGED <<featVars, dfVars, layerVars>>

\* lines 301-322
FeaturizeSplits(r) ==
    LET L     == r.max_seq_length
        train == convert_examples_to_features(
                   convert_text_to_examples(r.train_text, r.train_label), L)
        test  == convert_examples_to_features(
                   convert_text_to_examples(r.test_text, r.test_label), L)
    IN  IF Raises(train) THEN Aborted(r, "featurize", "AssertionError")
        ELSE IF Raises(test)
        THEN Aborted([r EXCEPT !.train_features = train], "featurize", "AssertionError")
        ELSE Completed([r EXCEPT !.train_features = train, !.test_features = test],
                       "featurize", "build")

Featurize ==
    /\ run.pc = "featurize"
    /\ run' = FeaturizeSplits(run)
    /\ UNCHANGED <<featVars, dfVars, layerVars>>

\* lines 325-328
BuildModel ==
    /\ run.pc = "build"
    /\ run' = Completed([run EXCEPT !.model = "compiled"], "build", "train")
    /\ UNCHANGED <<featVars, dfVars, layerVars>>

BuildModelFails ==
    /\ run.pc = "build"
    /\ run' = Aborted(run, "build", "build_model")
    /\ UNCHANGED <<featVars, dfVars, layerVars>>

\* lines 331-341
Train ==
    /\ run.pc = "train"
    /\ run' = Completed([run EXCEPT !.model = "trained"], "train", "persist")
    /\ UNCHANGED <<featVars, dfVars, layerVars>>

TrainFails ==
    /\ run.pc = "train"
    /\ run' = Aborted(run, "train", "model.fit")
    /\ UNCHANGED <<featVars, dfVars, layerVars>>

\* line 343
PersistUntrained ==
    /\ run.pc \in {"train", "persist"}
    /\ run' = Completed([run EXCEPT !.artifact = TRUE], "persist", "reload")
    /\ UNCHANGED <<featVars, dfVars, layerVars>>
Persist ==
    /\ run.pc = "persist"
    /\ run' = Completed([run EXCEPT !.artifact = TRUE], "persist", "reload")
    /\ UNCHANGED <<featVars, dfVars, layerVars>>

PersistFails ==
    /\ run.pc = "persist"
    /\ run' = Aborted(run, "persist", "model.save")
    /\ UNCHANGED <<featVars, dfVars, layerVars>>

\* lines 347-349: after main has returned
Reload ==
    /\ run.pc = "reload"
    /\ run' = Completed(run, "reload", "done")
    /\ UNCHANGED <<featVars, dfVars, layerVars>>

ReloadFails ==
    /\ run.pc = "reload"
    /\ run' = Aborted(run, "reload", "load_model")
    /\ UNCHANGED <<featVars, dfVars, layerVars>>

(***************************************************************************)
(* The specifications.                                                     *)
(***************************************************************************)
InitFeat ==
    /\ example \in FeatExamples
    /\ max_seq_length \in 0..MaxLen
    /\ features = NoFeatures
    /\ DfIdle /\ LayerIdle /\ MainIdle

NextFeat == CallConvertSingleExample

SpecFeat == InitFeat /\ [][NextFeat]_vars

InitDf ==
    /\ df \in DataFrames
    /\ df0 = df
    /\ column_name = "labels"
    /\ dfpc = "call"
    /\ FeatIdle /\ LayerIdle /\ MainIdle

NextDf == CallOneToMany

SpecDf == InitDf /\ [][NextDf]_vars

InitLayer ==
    /\ layer \in {NewLayer(n, p) : n \in 0..MaxFineTune, p \in Poolings}
    /\ FeatIdle /\ DfIdle /\ MainIdle

NextLayer ==
    \/ Construct
    \/ Build
    \/ Call

SpecLayer == InitLayer /\ [][NextLayer]_vars

InitMain ==
    /\ run \in {NewRun(csv, L) : csv \in CsvFiles, L \in MainSeqLengths}
    /\ FeatIdle /\ DfIdle /\ LayerIdle

NextMain ==
    \/ Load
    \/ LoadFails
    \/ Shuffle
    \/ Split
    \/ Expand
    \/ FetchTokenizer
    \/ FetchTokenizerFails
    \/ Featurize
    \/ BuildModel
    \/ BuildModelFails
    \/ Train
    \/ TrainFails
    \/ Persist
    \/ PersistFails
    \/ Reload
    \/ ReloadFails

SpecMain == InitMain /\ [][NextMain]_vars

Init == InitMain
Next == NextMain
Spec == SpecMain


(***************************************************************************)
(* Claims about convert_single_example, checked under SpecFeat.            *)
(***************************************************************************)
Returned == features.status = "returned"

Ordinary == example.kind = "input"

\* the tokens of the example's text and how many of them are kept
ExampleTokens == Tokenize(example.text_a)
Kept == Min(Len(ExampleTokens), max_seq_length - 2)

\* C1: for every ordinary example, every padding placeholder and every
\* max_seq_length >= 2 the call returns (no length assertion fails) and
\* input_ids, input_mask and segment_ids each have max_seq_length elements.
C1_FixedLength ==
    (features.status # "pending" /\ max_seq_length >= 2) =>
        /\ Returned
        /\ Len(features.input_ids) = max_seq_length
        /\ Len(features.input_mask) = max_seq_length
        /\ Len(features.segment_ids) = max_seq_length

\* a text of more tokens than fit has been converted
C1_Witness ==
    /\ Returned /\ Ordinary /\ max_seq_length >= 2
    /\ Len(ExampleTokens) > max_seq_length - 2
    /\ Len(features.input_ids) = max_seq_length

\* C2: the token ids of an ordinary example are the ids of [CLS], the first
\* k = min(n, L-2) tokens in order and [SEP], then only zeros up to length L;
\* when n > L-2 the [SEP] is the last element and nothing is padded.
C2_PrefixKept ==
    (Returned /\ Ordinary /\ max_seq_length >= 2) =>
        LET ids == features.input_ids
            L   == max_seq_length
        IN  /\ Len(ids) = L
            /\ ids[1] = VocabId("[CLS]")
            /\ \A j \in 1..Kept : ids[j + 1] = VocabId(ExampleTokens[j])
            /\ ids[Kept + 2] = VocabId("[SEP]")
            /\ \A j \in (Kept + 3)..L : ids[j] = 0
            /\ Len(ExampleTokens) > L - 2 =>
                  /\ ids[L] = VocabId("[SEP]")
                  /\ \A j \in 1..L : ids[j] # 0

\* the spec's example: L = 10 and 12 tokens, of which the first 8 survive
C2_Witness ==
    /\ Returned /\ Ordinary
    /\ max_seq_length = 10
    /\ Len(ExampleTokens) = 12
    /\ Kept = 8
    /\ features.input_ids[9] = VocabId(ExampleTokens[8])
    /\ features.input_ids[10] = VocabId("[SEP]")

\* ids is [CLS], k content ids, [SEP], then zeros
MarkedAndPadded(ids) ==
    /\ Len(ids) >= 2
    /\ ids[1] = VocabId("[CLS]")
    /\ \E k \in 0..(Len(ids) - 2) :
         /\ \A j \in 2..(k + 1) : ids[j] \notin {0, VocabId("[CLS]"), VocabId("[SEP]")}
         /\ ids[k + 2] = VocabId("[SEP]")
         /\ \A j \in (k + 3)..Len(ids) : ids[j] = 0

\* C3 as stated: every record returned, a padding placeholder's included,
\* starts with the [CLS] id, then content ids, [SEP] and zero padding.
C3_AsStated == Returned => MarkedAndPadded(features.input_ids)

\* C3 as amended: every record returned for an ordinary example starts with
\* the [CLS] id, then content ids, [SEP] and zero padding; the record of a
\* padding placeholder is all zeros and holds neither marker.
C3_Amended ==
    Returned =>
        IF Ordinary THEN MarkedAndPadded(features.input_ids)
        ELSE \A j \in 1..Len(features.input_ids) : features.input_ids[j] = 0

\* an ordinary example with content and room for padding has been converted
C3_Witness ==
    /\ Returned /\ Ordinary
    /\ Kept >= 1
    /\ Kept + 2 < max_seq_length
    /\ features.input_ids[1] = VocabId("[CLS]")

\* C4: the attention mask of an ordinary example is 1 at the positions of
\* [CLS], the kept tokens and [SEP] (the first min(n, L-2) + 2) and 0 at
\* every later, padding, position.
C4_MaskMarksRealTokens ==
    (Returned /\ Ordinary /\ max_seq_length >= 2) =>
        /\ Len(features.input_mask) = max_seq_length
        /\ \A j \in 1..max_seq_length :
             features.input_mask[j] = IF j <= Kept + 2 THEN 1 ELSE 0

\* a padded record: some positions are real, some are padding
C4_Witness ==
    /\ Returned /\ Ordinary
    /\ Kept + 2 < max_seq_length
    /\ features.input_mask[Kept + 2] = 1
    /\ features.input_mask[max_seq_length] = 0

(***************************************************************************)
(* Claims about one_to_many, checked under SpecDf.                         *)
(***************************************************************************)
\* the distinct label values of the dataframe handed in
LabelsBefore == {df0.data[r][column_name][2] : r \in 1..Len(df0.data)}

\* C5: one_to_many gives the dataframe one integer column per distinct label
\* value, the columns it appends being in sorted order, and in every row
\* the cell of column v is 1 if the row's label is v and 0 otherwise, so
\* that a row has exactly one 1 among these columns.
C5_OneHot ==
    dfpc = "returned" =>
        LET added == SubSeq(df.columns, Len(df0.columns) + 1, Len(df.columns))
        IN  /\ LabelsBefore \subseteq Range(df.columns)
            /\ Range(added) \subseteq LabelsBefore
            /\ \A i, j \in 1..Len(added) :
                 i < j => SortKey(PyStr(added[i])) < SortKey(PyStr(added[j]))
            /\ \A r \in 1..Len(df.data) : \A v \in LabelsBefore :
                 PyEq(df.data[r][v],
                      PyInt(IF df0.data[r][column_name][2] = v THEN 1 ELSE 0))

\* C6: one_to_many only augments: the rows, their order and the values of
\* every column that existed before the call are unchanged.
C6_OnlyAugments ==
    dfpc = "returned" =>
        /\ Len(df.data) = Len(df0.data)
        /\ df.index = df0.index
        /\ \A r \in 1..Len(df0.data) : \A c \in Range(df0.columns) :
             PyEq(df.data[r][c], df0.data[r][c])

(***************************************************************************)
(* Claims about main, checked under SpecMain.                              *)
(***************************************************************************)
Ran(stage) == stage \in Range(run.done)

RowIds(d) == [r \in 1..Len(d.data) |-> d.data[r]["id"][2]]

\* C7: the training split is the first floor(0.7 * n) rows of the shuffled
\* dataset and the test split the rest, disjoint and together every row
\* once, and there are as many feature records as rows in each split.
C7_SeventyThirty ==
    Ran("split") =>
        LET n  == Len(run.df.data)
            sz == (7 * n) \div 10
        IN  /\ Len(run.train_df.data) = sz
            /\ RowIds(run.train_df) = SubSeq(RowIds(run.df), 1, sz)
            /\ RowIds(run.test_df) = SubSeq(RowIds(run.df), sz + 1, n)
            /\ Range(RowIds(run.train_df)) \cap Range(RowIds(run.test_df)) = {}
            /\ Range(RowIds(run.train_df)) \cup Range(RowIds(run.test_df)) = 1..n
            /\ Ran("featurize") =>
                 /\ Len(run.train_features) = sz
                 /\ Len(run.test_features) = n - sz

\* the stages of the driver, in the order the claim gives them
StageOrder ==
    <<"load", "shuffle", "split", "expand", "tokenizer", "featurize",
      "build", "train", "persist">>

StageNumber(stage) == CHOOSE k \in 1..Len(StageOrder) : StageOrder[k] = stage

LabelOf(r) == run.df.data[r]["labels"][2]

TrainRows == 1..run.train_sz
TestRows == (run.train_sz + 1)..Len(run.df.data)

\* the k-th smallest label of S
KthSmallest(S, k) ==
    CHOOSE v \in S :
        Cardinality({w \in S : SortKey(PyStr(w)) < SortKey(PyStr(v))}) = k - 1

\* every vector of a split is the one-hot of its row's label among the
\* sorted distinct labels of that split
OneHotOverSplit(rows, first, vectors) ==
    LET vocabulary == {LabelOf(r) : r \in rows}
    IN  /\ Len(vectors) = Cardinality(rows)
        /\ \A r \in rows :
             LET vec == vectors[r - first + 1]
             IN  /\ Len(vec) = Cardinality(vocabulary)
                 /\ \A k \in 1..Len(vec) :
                      vec[k] = IF LabelOf(r) = KthSmallest(vocabulary, k) THEN 1 ELSE 0

\* C10: each split's label vectors have as many positions as the split has
\* distinct labels, position k standing for the k-th smallest label of the
\* split; when the two splits do not hold the same labels, their vectors
\* differ in width or some position stands for different labels in them.
C10_PerSplitVocabulary ==
    Ran("expand") =>
        /\ OneHotOverSplit(TrainRows, 1, run.train_label)
        /\ OneHotOverSplit(TestRows, run.train_sz + 1, run.test_label)
        /\ {LabelOf(r) : r \in TrainRows} # {LabelOf(r) : r \in TestRows} =>
             \/ \E r \in TrainRows, q \in TestRows :
                  Len(run.train_label[r]) # Len(run.test_label[q - run.train_sz])
             \/ \E r \in TrainRows, q \in TestRows :
                  \E k \in 1..Len(run.train_label[r]) :
                     /\ k <= Len(run.test_label[q - run.train_sz])
                     /\ run.train_label[r][k] = 1
                     /\ run.test_label[q - run.train_sz][k] = 1
                     /\ LabelOf(r) # LabelOf(q)
             \/ TrainRows = {}
             \/ TestRows = {}

\* equally wide vectors whose first position stands for different labels
C10_Witness ==
    /\ Ran("expand")
    /\ run.train_sz = 2 /\ Len(run.df.data) = 3
    /\ LabelOf(1) = "text" /\ LabelOf(2) = "text" /\ LabelOf(3) = "a"
    /\ run.train_label = <<(<<1>>), (<<1>>)>>
    /\ run.test_label = <<(<<1>>)>>

(***************************************************************************)
(* Claims about BertLayer, checked under SpecLayer.                        *)
(***************************************************************************)
\* C9: constructing a BertLayer with a pooling other than first or mean
\* raises in the constructor, before the layer is built or the encoder
\* fetched; constructing it with first or mean does not raise.
C9_PoolingChecked ==
    layer.pc # "new" =>
        IF layer.arg_pooling \notin {"first", "mean"}
        THEN /\ layer.pc = "NameError"
             /\ layer.raised = "__init__"
             /\ ~layer.super_init
             /\ ~layer.bert
             /\ ~layer.built
        ELSE /\ layer.raised # "__init__"
             /\ layer.pc \in {"constructed", "built", "called"}

\* a constructor call with an unknown pooling has raised
C9_Witness ==
    /\ layer.arg_pooling = "max"
    /\ layer.pc = "NameError"
    /\ layer.raised = "__init__"
    /\ layer.pooling = "max"

====
